---- MODULE Spec2Model ----
(***************************************************************************)
(* Region allocator, escape tracking and write barrier of package cpusim.  *)
(*                                                                         *)
(* A block is 8 KiB of memory whose first two lines hold BlockMeta.  The   *)
(* 64-bit and 1024-bit bitmaps of the code are sets of bit indices: bit i  *)
(* of a uint64 is the number i in 0..63, bit i of EscBits/ObjBits the      *)
(* number i in 0..1023 (word i/64, bit i%64, little-endian).  Addresses    *)
(* are natural numbers; block number b occupies [b*BlockSize,              *)
(* (b+1)*BlockSize), so that every block is BlockSize-aligned.             *)
(***************************************************************************)
EXTENDS Integers, Sequences, FiniteSets, TLC

\* ------------------------------------------------------------ constants
BlockSize == 8192
lineSize == 128
headerSize == 8
minAlign == 8
BitmapSize == (BlockSize \div minAlign) \div 8
NumLines == BlockSize \div lineSize
NumWords == BlockSize \div minAlign

\* ------------------------------------------------------------ bounds
\* Number of NewBlock calls explored (the host allocator is unbounded).
MaxBlocks == 3
\* Number of Make / MarkEscaped / Reset calls in one behaviour.
MaxOps == 5
\* The same, in the behaviours that also call the write barrier.
MaxBarrierOps == 4
\* The same, in the behaviours that also store pointers into objects.
MaxStoreOps == 4
\* The same, in the behaviours that hand Make a type of another size.
MaxTypedOps == 3

\* Request sizes handed to Make.
Sizes == {20, 104, 240, 7904, 7912}
\* Sizes of the type descriptors handed to Make with a request size of its
\* own.
TypeSizes == {104, 240}
\* Application profiles handed to the cost model besides the embedded one:
\* TotalCPU in milliseconds, GCCPU in nanoseconds, AllocBytes, Allocs and
\* PointerWrites as counts.
Profiles ==
  [Name : {"Small"}, TotalCPU : {1}, GCCPU : {0, 2, 50}, AllocBytes : {0, 100},
   Allocs : {0, 7}, PointerWrites : {3}]
\* The range a sweep gives to a scenario parameter, in the units of the
\* parameter (see Scale and DensityScale).
SweepRange(param) ==
  IF param = "C_R" THEN [lo |-> 100, hi |-> 110]
  ELSE IF param = "P_F" THEN [lo |-> 0, hi |-> 1250]
  ELSE [lo |-> 0, hi |-> 100]
\* Step counts of the sweeps of one parameter; with them every value of a
\* sweep is a whole number of units.
SweepSteps == {2, 3}
\* The characters of the --vary strings handed to parseVaryProgram.
Alphabet == {"B", "O", "_", "R", "F", "=", "[", ":", "]", "/", ",", "0", "1",
             ".", "-", "x"}
\* Two well-formed --vary strings: B_R=[0:1]/2 and B_R=[0:1],O_F=[.5:1]/-1.
BaseInputs ==
  {<<"B", "_", "R", "=", "[", "0", ":", "1", "]", "/", "2">>,
   <<"B", "_", "R", "=", "[", "0", ":", "1", "]", ",",
     "O", "_", "F", "=", "[", ".", "5", ":", "1", "]", "/", "-", "1">>}
\* The strings one edit away from s: its non-empty prefixes, s with one
\* character removed, s with one character replaced.
Edits(s) ==
  {SubSeq(s, 1, k) : k \in 1..Len(s)}
  \cup {SubSeq(s, 1, k - 1) \o SubSeq(s, k + 1, Len(s)) : k \in 1..Len(s)}
  \cup {[s EXCEPT ![k] = c] : k \in 1..Len(s), c \in Alphabet}
VaryInputs == UNION {Edits(s) : s \in BaseInputs}
\* The regular expressions handed to --app and --scenario: the default .*
\* and literals, some with ^ or $.
Patterns ==
  {<<".", "*">>,
   <<"E", "t", "c", "d">>,
   <<"^", "E", "t", "c", "d">>,
   <<"B", "e", "n", "c", "h", "$">>,
   <<"^", "E", "t", "c", "d", "P", "u", "t", "B", "e", "n", "c", "h", "$">>,
   <<"E", "t", "c", "d", "P", "u", "t", "B", "e", "n", "c", "h">>,
   <<"B", "e", "s", "t">>,
   <<"P", "o", "s", "s", "i", "b", "l", "e">>,
   <<"^", "B", "e", "s", "t", "P", "o", "s", "s", "i", "b", "l", "e", "$">>,
   <<"x">>}
\* Base scenarios handed to a sweep besides the three of Scenarios.
BaseScenarios ==
  [Name : {"Base"}, RegionAllocBytesFrac : {0, 100}, RegionAllocsFrac : {90},
   FadeAllocBytesFrac : {0, 5}, FadeAllocsFrac : {0, 5},
   ScannedRegionAllocBytesFrac : {0, 1}, RegionScanCostRatio : {105},
   FadeAllocsPointerDensity : {0, 1250}]
\* Calls of NewFakeType in one behaviour.
MaxTypes == 2
\* Sizes and pointer-byte counts handed to NewFakeType directly.
NewTypeSizes == {0, 8, 12, 16}
\* gcdata buffers handed to NewFakeType directly: nil, and buffers of 4, 8
\* and 16 bytes, zero or with the bits of the words of 16 bytes set.
NewTypeBuffers ==
  {[size |-> 0, percent |-> 0, len |-> 0]}
  \cup [size : {16}, percent : {0, 100}, len : {4, 8, 16}]
\* Pointer percentages of the type descriptors handed to Make.
PtrPercents == {0, 100}
\* Byte offsets into the payload of the pointers handed to MarkEscaped and
\* to the write barrier.
Offsets(size) == {0, size - 1}
\* Reserved-line masks of the blocks handed to NewAllocator.
ReservedLines == {{3} \cup (6..63)}
\* Values of the process-global MinRegionAddress: unset, and the lowest
\* block address.
MinRegionChoices == {0, BlockSize}
\* A non-nil address below every block: a pointer into the ordinary heap.
HeapAddr == BlockSize \div 2

VARIABLES blk, main, overflow, full, existing, nblocks, objs, last, ops, crashed,
          ptrPercent, budget, cost, types

vars == <<blk, main, overflow, full, existing, nblocks, objs, last, ops, crashed,
          ptrPercent, budget, cost, types>>

\* ------------------------------------------------------------ bit math
SetMin(S) == CHOOSE x \in S : \A y \in S : x <= y
SetMax(S) == CHOOSE x \in S : \A y \in S : x >= y

AlignUp(x, align) == ((x + align - 1) \div align) * align
AlignDown(x, align) == (x \div align) * align

\* math/bits on a uint64 given as its set of set bits.
TrailingZeros64(S) == IF S = {} THEN 64 ELSE SetMin(S)
LeadingZeros64(S) == IF S = {} THEN 64 ELSE 63 - SetMax(S)
Not64(S) == (0..63) \ S
\* x >> k and x << k of Go: bits shifted out are lost.
Shr64(S, k) == {b - k : b \in {x \in S : x >= k}}
Shl64(S, k) == {b + k : b \in {x \in S : x + k <= 63}}
\* (1 << n) - 1 in uint64 arithmetic: 1 << 64 is 0, and 0 - 1 is all ones.
LowMask64(n) == IF n >= 64 THEN 0..63 ELSE 0..(n - 1)

\* The bits of 64-bit word k of a 1024-bit bitmap, as a uint64.
BitmapWord(bits, k) == {b - 64 * k : b \in {x \in bits : x \div 64 = k}}

\* ------------------------------------------------------------ Block
Base(b) == b.data
\* The nil *FakeType, and the 64-bit word 0 read as a header.
NilData == [size |-> 0, percent |-> 0, len |-> 0]
NilType == [nil |-> TRUE, Size_ |-> 0, PtrBytes |-> 0, GCData |-> NilData]
ZeroWord == [typ |-> NilType, words |-> 0]

\* Load of the 64-bit word at word index w of the block's memory: a header
\* written by Make, or 0.
Load(b, w) == IF w \in DOMAIN b.mem THEN b.mem[w] ELSE ZeroWord

NoBlock ==
  [cursor |-> 0, limit |-> 0, lineAlloc |-> {}, next |-> 0, data |-> 0,
   EscBits |-> {}, ObjBits |-> {}, LineEscape |-> {}, mem |-> <<>>]

\* Block.Reset's loop over clearIter: obj is ObjBits, read as 16-bit chunks
\* (chunk k holds the bits 16k..16k+15, the words of line k).
RECURSIVE ResetClear(_, _)
ResetClear(clearIter, obj) ==
  IF clearIter = {} THEN obj
  ELSE LET i == TrailingZeros64(Not64(clearIter))
           c1 == Shr64(clearIter, i)
           n0 == TrailingZeros64(c1)
           n == IF n0 = 64 THEN n0 - i ELSE n0
       IN ResetClear(Shr64(c1, n),
                     {w \in obj : ~(16 * i <= w /\ w < 16 * (i + n))})

\* Block.Reset that clears the escape bitmap as well.
BlockResetAll(b) ==
  LET la == b.LineEscape \cup {0, 1}
  IN [b EXCEPT !.lineAlloc = la, !.cursor = 0, !.limit = 0, !.EscBits = {},
               !.ObjBits = ResetClear(la, b.ObjBits)]

BlockReset(b) ==
  LET la == b.LineEscape \cup {0, 1}
  IN [b EXCEPT !.lineAlloc = la, !.cursor = 0, !.limit = 0,
               !.ObjBits = ResetClear(la, b.ObjBits)]

\* NewBlock(lines) for the block at address id * BlockSize.
NewBlock(id, lines) ==
  BlockReset([NoBlock EXCEPT !.data = id * BlockSize, !.LineEscape = lines])

\* NewBlockFromExisting(lines, region, data) on zeroed data.
NewBlockFromExisting(id, lines) ==
  BlockReset([NoBlock EXCEPT !.data = id * BlockSize, !.LineEscape = lines])

Contains(b, ptr) == Base(b) <= ptr /\ ptr <= Base(b) + (BlockSize - 1)

\* tryAllocFast that leaves the cursor where it was.
TryAllocFastStale(b, size) ==
  LET c == b.cursor
      n == c + size
  IN IF n < b.limit
     THEN LET wi == (c - Base(b)) \div minAlign
          IN [addr |-> c, b |-> [b EXCEPT !.ObjBits = @ \cup {wi}]]
     ELSE [addr |-> 0, b |-> b]

\* Result [addr, b]: addr = 0 is the nil pointer.
TryAllocFast(b, size) ==
  LET c == b.cursor
      n == c + size
  IN IF n < b.limit
     THEN LET wi == (c - Base(b)) \div minAlign
          IN [addr |-> c,
              b |-> [b EXCEPT !.cursor = n, !.ObjBits = @ \cup {wi}]]
     ELSE [addr |-> 0, b |-> b]

\* refill without the 16 bytes skipped at the start of line 2.
RefillNoSkip(b) ==
  LET lineAlloc == b.lineAlloc
      i == TrailingZeros64(Not64(lineAlloc))
      n0 == TrailingZeros64(Shr64(lineAlloc, i))
      n == IF n0 = 64 THEN n0 - i ELSE n0
      cur == Base(b) + i * lineSize
  IN IF i = 64
     THEN [ok |-> FALSE, b |-> b]
     ELSE [ok |-> TRUE,
           b |-> [b EXCEPT !.lineAlloc = lineAlloc \cup Shl64(LowMask64(n), i),
                           !.cursor = cur,
                           !.limit = cur + n * lineSize]]

\* refill that takes every line from the first free one to the end of
\* the block.
RefillToEnd(b) ==
  LET lineAlloc == b.lineAlloc
      i == TrailingZeros64(Not64(lineAlloc))
      n == 64 - i
      cur == Base(b) + i * lineSize
  IN IF i = 64
     THEN [ok |-> FALSE, b |-> b]
     ELSE [ok |-> TRUE,
           b |-> [b EXCEPT !.lineAlloc = lineAlloc \cup Shl64(LowMask64(n), i),
                           !.cursor = IF i = 2 THEN cur + 16 ELSE cur,
                           !.limit = cur + n * lineSize]]

\* Result [ok, b].
Refill(b) ==
  LET lineAlloc == b.lineAlloc
      i == TrailingZeros64(Not64(lineAlloc))
      n0 == TrailingZeros64(Shr64(lineAlloc, i))
      n == IF n0 = 64 THEN n0 - i ELSE n0
      cur == Base(b) + i * lineSize
  IN IF i = 64
     THEN [ok |-> FALSE, b |-> b]
     ELSE [ok |-> TRUE,
           b |-> [b EXCEPT !.lineAlloc = lineAlloc \cup Shl64(LowMask64(n), i),
                           !.cursor = IF i = 2 THEN cur + 16 ELSE cur,
                           !.limit = cur + n * lineSize]]

\* Block.tryAlloc1: refill until a refill fails or the fast path succeeds.
RECURSIVE TryAlloc1(_, _)
\* f is the result of tryAllocFast on b.
TryAllocRetry(b, f, size) == IF f.addr # 0 THEN f ELSE TryAlloc1(b, size)
\* r is the result of refill.
TryAllocRefilled(r, size) ==
  IF ~r.ok
  THEN [addr |-> 0, b |-> r.b]
  ELSE TryAllocRetry(r.b, TryAllocFast(r.b, size), size)
TryAlloc1(b, size) == TryAllocRefilled(Refill(b), size)

TryAlloc(b, size) == TryAllocRetry(b, TryAllocFast(b, size), size)

\* ------------------------------------------------------------ Allocator
\* The allocator and the blocks it can reach, as one value.
Alloc ==
  [blk |-> blk, main |-> main, overflow |-> overflow, full |-> full,
   existing |-> existing, nblocks |-> nblocks]

\* Allocator.getBlock.  Result [ok, a, b]: ok is FALSE when NewBlock would be
\* call number MaxBlocks + 1.
GetBlock(a) ==
  LET n == Len(a.existing)
      id == a.nblocks + 1
  IN IF n = 0
     THEN IF a.nblocks < MaxBlocks
          THEN [ok |-> TRUE, b |-> id,
                a |-> [a EXCEPT !.nblocks = id, !.blk[id] = NewBlock(id, {})]]
          ELSE [ok |-> FALSE, b |-> 0, a |-> a]
     ELSE [ok |-> TRUE, b |-> a.existing[n],
           a |-> [a EXCEPT !.existing = SubSeq(a.existing, 1, n - 1)]]

\* a.overflow = NewBlock(0)
WithNewOverflow(a) ==
  [a EXCEPT !.nblocks = a.nblocks + 1, !.overflow = a.nblocks + 1,
            !.blk[a.nblocks + 1] = NewBlock(a.nblocks + 1, {})]

\* The inner loop of Make on the overflow block.  Result [addr, a, in]:
\* addr = 0 when the loop is still running at NewBlock call MaxBlocks + 1.
RECURSIVE OverflowLoop(_, _)
\* r is the result of a.overflow.tryAlloc(fullSize).
OverflowStep(a, r, fullSize) ==
  IF r.addr # 0
  THEN [addr |-> r.addr, a |-> [a EXCEPT !.blk[a.overflow] = r.b], in |-> a.overflow]
  ELSE IF a.nblocks < MaxBlocks
       THEN OverflowLoop(WithNewOverflow([a EXCEPT !.blk[a.overflow] = r.b]), fullSize)
       ELSE [addr |-> 0, a |-> [a EXCEPT !.blk[a.overflow] = r.b], in |-> 0]
OverflowLoop(a, fullSize) ==
  OverflowStep(a, TryAlloc(a.blk[a.overflow], fullSize), fullSize)

\* a.main.next = a.full; a.full = a.main
PushFull(a) == [a EXCEPT !.blk[a.main].next = a.full, !.full = a.main]

\* The outer loop of Make.
RECURSIVE OuterLoop(_, _)
\* g is the result of getBlock.
OuterGot(a, g, fullSize) ==
  IF g.ok
  THEN OuterLoop([g.a EXCEPT !.main = g.b], fullSize)
  ELSE [addr |-> 0, a |-> a, in |-> 0]
\* a.main.tryAlloc(fullSize) has returned nil.
OuterFailed(a, fullSize) ==
  IF fullSize > lineSize /\ a.blk[a.main].limit - a.blk[a.main].cursor > lineSize
  THEN IF a.overflow # 0
       THEN OverflowLoop(a, fullSize)
       ELSE IF a.nblocks < MaxBlocks
            THEN OverflowLoop(WithNewOverflow(a), fullSize)
            ELSE [addr |-> 0, a |-> a, in |-> 0]
  ELSE OuterGot(PushFull(a), GetBlock(PushFull(a)), fullSize)
\* r is the result of a.main.tryAlloc(fullSize).
OuterStep(a, r, fullSize) ==
  IF r.addr # 0
  THEN [addr |-> r.addr, a |-> [a EXCEPT !.blk[a.main] = r.b], in |-> a.main]
  ELSE OuterFailed([a EXCEPT !.blk[a.main] = r.b], fullSize)
OuterLoop(a, fullSize) ==
  OuterStep(a, TryAlloc(a.blk[a.main], fullSize), fullSize)

\* The header word Make writes: the type in the low 48 bits, size/8 in the
\* high 16 bits.
Header(typ, size) == [typ |-> typ, words |-> (size \div 8) % 65536]

\* A word whose k bytes at the lowest addresses memclrNoHeapPointers has
\* zeroed: field low counts them, the other fields are those of the word
\* before.  Such a word is the padding at the end of an object.
ClearLow(word, k) ==
  IF word = ZeroWord THEN word
  ELSE ("low" :> IF "low" \in DOMAIN word /\ word.low > k THEN word.low ELSE k)
         @@ word

\* Make that writes the header and does not clear the payload.
WriteObjectNoClear(mem, hw, size, typ) ==
  (hw :> Header(typ, size)) @@ mem

\* Lines 69-70 of Make on the block's memory: the header at word hw, then
\* memclrNoHeapPointers(addr + headerSize, size), which zeroes size \div 8
\* whole words and size % 8 bytes of the word after them.
WriteObject(mem, hw, size, typ) ==
  (hw :> Header(typ, size)) @@
  [w \in DOMAIN mem \ ((hw + 1)..(hw + size \div 8)) |->
     IF w = hw + 1 + size \div 8 /\ size % 8 # 0
     THEN ClearLow(mem[w], size % 8)
     ELSE mem[w]]

\* r is the result of the outer loop.
MakeDone(r, size, typ) ==
  IF r.addr = 0 THEN r
  ELSE [r EXCEPT !.a.blk[r.in].mem =
          WriteObject(@, (r.addr - r.a.blk[r.in].data) \div minAlign, size, typ)]

\* g is the main block Make starts with.
MakeFirst(a, g, size, typ) ==
  IF ~g.ok THEN [addr |-> 0, a |-> a, in |-> 0]
  ELSE MakeDone(OuterLoop([g.a EXCEPT !.main = g.b],
                          AlignUp(size + headerSize, minAlign)), size, typ)

\* Allocator.Make.  Result [addr, a, in]: addr is the address of the header
\* (the payload pointer returned is addr + headerSize), in the block used.
MakeAlloc(a, size, typ) ==
  MakeFirst(a, IF a.main = 0 THEN GetBlock(a)
               ELSE [ok |-> TRUE, b |-> a.main, a |-> a], size, typ)

\* Reset with an if for the loop: only the head of the full list is reset.
AllocResetOnce(a) ==
  IF a.full = 0 THEN a
  ELSE [a EXCEPT !.blk[a.full] = BlockReset(@),
                 !.existing = Append(@, a.full),
                 !.full = a.blk[a.full].next]

\* Allocator.Reset: every block of the full list is reset and pushed on
\* existing.
RECURSIVE AllocReset(_)
AllocReset(a) ==
  IF a.full = 0 THEN a
  ELSE AllocReset([a EXCEPT !.blk[a.full] = BlockReset(@),
                            !.existing = Append(@, a.full),
                            !.full = a.blk[a.full].next])

\* The blocks of the full list.
RECURSIVE FullList(_, _)
FullList(a, f) == IF f = 0 THEN {} ELSE {f} \cup FullList(a, a.blk[f].next)

\* The search of BlockOf through the full list, from block f on.
RECURSIVE BlockOfFull(_, _, _)
BlockOfFull(a, f, ptr) ==
  IF f = 0 THEN 0
  ELSE IF Contains(a.blk[f], ptr) THEN f
  ELSE BlockOfFull(a, a.blk[f].next, ptr)

\* BlockOf that does not look at the overflow block.
BlockOfMainFull(a, ptr) ==
  IF a.main = 0 THEN -1
  ELSE IF Contains(a.blk[a.main], ptr) THEN a.main
  ELSE BlockOfFull(a, a.full, ptr)

\* Allocator.BlockOf: the block found, 0 for nil, -1 for the nil
\* dereference of Contains on a main or overflow block that is nil.
BlockOf(a, ptr) ==
  IF a.main = 0 THEN -1
  ELSE IF Contains(a.blk[a.main], ptr) THEN a.main
  ELSE IF a.overflow = 0 THEN -1
  ELSE IF Contains(a.blk[a.overflow], ptr) THEN a.overflow
  ELSE BlockOfFull(a, a.full, ptr)

\* ------------------------------------------------------------ FakeType
\* The size of a pointer, which the package takes from a file that is not
\* among the sources: 8 bytes, as the 8-byte header and minAlign have it.
ptrSize == 8

\* The pointer bits of a gcdata buffer of len bytes, filled as
\* makeFakeType(size, ptrPercent) of the tests fills it: for ptrPercent 0
\* no bit, for 100 the bit of every word j = i/8, i = 0, 8, .. < size, that
\* the buffer has.  A buffer is named by [size, percent, len]; NilData is
\* the nil pointer.
GCBits(gcdata) ==
  IF gcdata.percent = 0 THEN {}
  ELSE {j \in 0..((gcdata.size + 7) \div 8 - 1) : j < 8 * gcdata.len}

\* The panic of NewFakeType(size, ptrs, gcdata), "" when it returns.
NewFakeTypePanic(size, ptrs, gcdata) ==
  IF ptrs > size THEN "ptrs must be less than or equal to size"
  ELSE IF gcdata.len % ptrSize # 0
  THEN "gc data must be rounded to the pointer size"
  ELSE ""

\* NewFakeType with PtrBytes stored as given.
NewFakeTypeExact(size, ptrs, gcdata) ==
  [nil |-> FALSE, Size_ |-> AlignUp(size, ptrSize), PtrBytes |-> ptrs,
   GCData |-> IF gcdata.len = 0 THEN NilData ELSE gcdata]

\* The descriptor NewFakeType(size, ptrs, gcdata) returns: it keeps a
\* pointer to the first byte of the buffer, nil for an empty one.
NewFakeType(size, ptrs, gcdata) ==
  [nil |-> FALSE, Size_ |-> AlignUp(size, ptrSize),
   PtrBytes |-> AlignUp(ptrs, ptrSize),
   GCData |-> IF gcdata.len = 0 THEN NilData ELSE gcdata]

\* makeFakeType(size, ptrPercent) of the tests, for ptrPercent 0 and 100.
MakeFakeType(size, pct) ==
  IF pct = 0
  THEN NewFakeType(size, 0, NilData)
  ELSE NewFakeType(size, AlignDown(size, 8),
                   [size |-> size, percent |-> pct,
                    len |-> AlignUp(AlignUp(AlignDown(size, 8) \div 8, 8) \div 8, 8)])

\* The payload word offsets the pointer-shape iterator yields for an object
\* of `size` bytes: the set bits of GCData below PtrBytes and below the limit.
PtrSlots(typ, size) ==
  {k \in GCBits(typ.GCData) : k * 8 < typ.PtrBytes /\ k * 8 < size}

\* ------------------------------------------------------------ MarkEscaped
\* The backward scan over ObjBits, one 64-bit word at a time.  Result: the
\* header word index, or -1 when objIdx wraps below 0 and the index into
\* ObjBits is out of range.
RECURSIVE ScanBack(_, _, _)
ScanBack(obj, objIdx, n) ==
  IF n = 64
  THEN IF AlignDown(objIdx, 64) < 64
       THEN -1
       ELSE LET i == AlignDown(objIdx, 64) - 64
            IN ScanBack(obj, i, LeadingZeros64(BitmapWord(obj, i \div 64)))
  ELSE AlignDown(objIdx, 64) + 64 - n - 1

\* Lines 24-43: the header word index MarkEscaped settles on for address a.
FindObjIdx(b, a) ==
  LET objIdx == (a - Base(b)) \div minAlign
  IN IF objIdx # 0 /\ (objIdx - 1) \in b.ObjBits
     THEN objIdx - 1
     ELSE LET mask == LowMask64(objIdx)
              n == LeadingZeros64(BitmapWord(b.ObjBits, objIdx \div 64) \cap mask)
          IN ScanBack(b.ObjBits, objIdx, n)

\* EscRange with the object's last word left out.
EscRangeShort(objIdx, objEndIdx) ==
  IF objIdx \div 64 = objEndIdx \div 64
  THEN {64 * (objIdx \div 64) + i :
          i \in Shl64(LowMask64(objEndIdx - objIdx), objIdx % 64)}
  ELSE {64 * (objIdx \div 64) + i : i \in Shl64(0..63, objIdx % 64)}
       \cup {w \in 0..(NumWords - 1) :
               objIdx \div 64 + 1 <= w \div 64 /\ w \div 64 < objEndIdx \div 64}
       \cup {64 * (objEndIdx \div 64) + i : i \in LowMask64(objEndIdx % 64)}

\* Lines 47-62: the bits MarkEscaped sets in EscBits.
EscRange(objIdx, objEndIdx) ==
  IF objIdx \div 64 = objEndIdx \div 64
  THEN {64 * (objIdx \div 64) + i :
          i \in Shl64(LowMask64(objEndIdx - objIdx + 1), objIdx % 64)}
  ELSE {64 * (objIdx \div 64) + i : i \in Shl64(0..63, objIdx % 64)}
       \cup {w \in 0..(NumWords - 1) :
               objIdx \div 64 + 1 <= w \div 64 /\ w \div 64 < objEndIdx \div 64}
       \cup {64 * (objEndIdx \div 64) + i : i \in LowMask64((objEndIdx % 64) + 1)}

\* Lines 64-67: the bits MarkEscaped sets in LineEscape.
LineBits(off, size) ==
  LET objLine == off \div lineSize
      objEndLine == (off + size) \div lineSize
  IN Shl64(Shl64({0}, objEndLine - objLine), objLine)

\* Lines 69-93: b1 is the block with the escape bits set.
MarkPointers(b1, objIdx, header, size) ==
  IF header.typ.nil
  THEN [b |-> b1, status |-> "panic", found |-> objIdx]
  ELSE IF header.typ.PtrBytes = 0
  THEN [b |-> b1, status |-> "ok", found |-> objIdx]
  ELSE IF header.typ.GCData = NilData
  THEN [b |-> b1, status |-> "panic", found |-> objIdx]
  ELSE IF \E k \in PtrSlots(header.typ, size) : Load(b1, objIdx + 1 + k) # ZeroWord
  THEN [b |-> b1, status |-> "panic", found |-> objIdx]
  ELSE [b |-> b1, status |-> "ok", found |-> objIdx]

\* MarkObject with the escape bits flipped instead of set.
MarkObjectFlip(b, a, objIdx, header, objEndIdx) ==
  IF objEndIdx \div 64 >= NumWords \div 64
  THEN [b |-> b, status |-> "panic", found |-> objIdx]
  ELSE MarkPointers(
         [b EXCEPT !.EscBits = (@ \ EscRange(objIdx, objEndIdx))
                                 \cup (EscRange(objIdx, objEndIdx) \ @),
                   !.LineEscape = @ \cup LineBits(a - Base(b), header.words * 8)],
         objIdx, header, header.words * 8)

\* Lines 44-67: header is the word loaded at objIdx.
MarkObject(b, a, objIdx, header, objEndIdx) ==
  IF objEndIdx \div 64 >= NumWords \div 64
  THEN [b |-> b, status |-> "panic", found |-> objIdx]
  ELSE MarkPointers(
         [b EXCEPT !.EscBits = @ \cup EscRange(objIdx, objEndIdx),
                   !.LineEscape = @ \cup LineBits(a - Base(b), header.words * 8)],
         objIdx, header, header.words * 8)

\* objIdx is the header word index found.
MarkAt(b, a, objIdx) ==
  IF objIdx = -1
  THEN [b |-> b, status |-> "panic", found |-> objIdx]
  ELSE MarkObject(b, a, objIdx, Load(b, objIdx),
                  objIdx + (Load(b, objIdx).words * 8) \div minAlign)

\* MarkEscaped(a) for a non-nil a in block b.  Result [b, status, found].
MarkEscaped(b, a) == MarkAt(b, a, FindObjIdx(b, a))

\* ------------------------------------------------------------ write barrier
\* Bit i of the bytes at the start of block number id (the EscBits bytes).
EscBit(id, i) == i \in blk[id].EscBits

\* escapedOrHeap(ptr); "fault" is the load through address 0.
EscapedOrHeap(ptr, MinRegionAddress) ==
  LET base == AlignDown(ptr, BlockSize)
      word == (ptr - base) \div 8
  IN IF ptr < MinRegionAddress THEN "true"
     ELSE IF base = 0 THEN "fault"
     ELSE IF EscBit(base \div BlockSize, 8 * (word \div 8) + (word % 8))
          THEN "true" ELSE "false"

\* RegionWriteBarrierFastPathReference: "invoke" when dummyMarkEscaped is
\* called.
BarrierReference(ptr, dst, MinRegionAddress) ==
  LET p == EscapedOrHeap(ptr, MinRegionAddress)
      d == EscapedOrHeap(dst, MinRegionAddress)
  IN IF p = "fault" THEN "fault"
     ELSE IF p = "true" THEN "return"
     ELSE IF d = "fault" THEN "fault"
     ELSE IF d = "false" THEN "return"
     ELSE "invoke"

\* The bit the fast path tests for an address: bit word%64 of the uint64
\* loaded from byte base + word/64.
FastBit(addr) ==
  LET base == AlignDown(addr, BlockSize)
      word == (addr - base) \div 8
  IN EscBit(base \div BlockSize, 8 * (word \div 64) + (word % 64))

\* RegionWriteBarrierFastPath without the early return on dst.
BarrierFastPathNoDst(ptr, dst, MinRegionAddress) ==
  LET split == MinRegionAddress
  IN IF ptr = 0 THEN "return"
     ELSE IF ptr < split THEN "return"
     ELSE IF FastBit(ptr) THEN "return"
     ELSE "invoke"

\* RegionWriteBarrierFastPath.
BarrierFastPath(ptr, dst, MinRegionAddress) ==
  LET split == MinRegionAddress
  IN IF ptr = 0 THEN "return"
     ELSE IF ptr < split THEN "return"
     ELSE IF dst >= split /\ ~FastBit(dst) THEN "return"
     ELSE IF FastBit(ptr) THEN "return"
     ELSE "invoke"

\* ------------------------------------------------------------ cost model
\* A float64 fraction or ratio of a Scenario is the integer number of its
\* hundredths, a pointer density the number of its ten-thousandths; a
\* product of floats is the exact product of the numerators over the
\* product of the units.
Scale == 100
DensityScale == 10000

\* x*n = q*d + r with 0 <= r < d, for x, n >= 0 and d > 0, computed by
\* doubling so that no intermediate value exceeds 3*d or the quotient; the
\* result for n \div 2 is bound once and used for both q and r.
MulDivStep(h, x, odd, d) ==
  [q |-> 2 * h.q + (IF odd THEN x \div d ELSE 0)
           + (2 * h.r + (IF odd THEN x % d ELSE 0)) \div d,
   r |-> (2 * h.r + (IF odd THEN x % d ELSE 0)) % d]

RECURSIVE MulDiv(_, _, _)
MulDiv(x, n, d) ==
  IF n = 0 THEN [q |-> 0, r |-> 0]
  ELSE CHOOSE res \in {MulDivStep(h, x, n % 2 = 1, d) :
                        h \in {MulDiv(x, n \div 2, d)}} : TRUE

\* The conversion of the float x*n/den (x >= 0, den > 0) to an integer type:
\* the fraction is discarded (truncation toward zero).
Trunc(x, n, den) ==
  IF n >= 0 THEN MulDiv(x, n, den).q ELSE -(MulDiv(x, -n, den).q)

Scenarios ==
  {[Name |-> "IdealBroadUse", RegionAllocBytesFrac |-> 60,
    RegionAllocsFrac |-> 90, FadeAllocBytesFrac |-> 5, FadeAllocsFrac |-> 5,
    ScannedRegionAllocBytesFrac |-> 1, RegionScanCostRatio |-> 105,
    FadeAllocsPointerDensity |-> 625],
   [Name |-> "BestPossible", RegionAllocBytesFrac |-> 100,
    RegionAllocsFrac |-> 100, FadeAllocBytesFrac |-> 0, FadeAllocsFrac |-> 0,
    ScannedRegionAllocBytesFrac |-> 0, RegionScanCostRatio |-> 100,
    FadeAllocsPointerDensity |-> 0],
   [Name |-> "WorstPossible", RegionAllocBytesFrac |-> 100,
    RegionAllocsFrac |-> 100, FadeAllocBytesFrac |-> 100, FadeAllocsFrac |-> 100,
    ScannedRegionAllocBytesFrac |-> 0, RegionScanCostRatio |-> 105,
    FadeAllocsPointerDensity |-> 1250]}

\* Nanoseconds in a millisecond: TotalCPU of a profile is held in
\* milliseconds (every embedded TotalCPU is a whole number of them), all
\* other durations in nanoseconds.
Milli == 1000000

\* The embedded profile whose numbers fit the integers of the model.
AppProfiles ==
  {[Name |-> "EtcdPutBench", TotalCPU |-> 4683 * 4, GCCPU |-> 310651000,
    Allocs |-> 8838440, AllocBytes |-> 1027291400, PointerWrites |-> 38108457]}

\* 8*o + 0.15*b; 8*o is whole, so the fraction discarded is that of 0.15*b.
bumpAllocCPU(o, b) == 8 * o + Trunc(b, 15, Scale)
\* 20*o + 0.08*b
baseAllocCPU(o, b) == 20 * o + Trunc(b, 8, Scale)
\* 4.5 * writes
wbTestCPU(writes) == Trunc(writes, 45, 10)
\* fadeCPU with the cost per faded object taken as a credit.
fadeCPUCredit(o, p) == Trunc(p, 337, Scale) - 40 * o
\* 40*o + 3.37*p
fadeCPU(o, p) == 40 * o + Trunc(p, 337, Scale)

deltaAllocCPU(prof, scenario) ==
  bumpAllocCPU(Trunc(prof.Allocs, scenario.RegionAllocsFrac, Scale),
               Trunc(prof.AllocBytes, scenario.RegionAllocBytesFrac, Scale))
  + baseAllocCPU(Trunc(prof.Allocs, Scale - scenario.RegionAllocsFrac, Scale),
                 Trunc(prof.AllocBytes, Scale - scenario.RegionAllocBytesFrac,
                       Scale))
  - baseAllocCPU(prof.Allocs, prof.AllocBytes)

\* deltaCPU with the heap outside regions growing with B_R.
deltaCPUGrow(prof, scenario) ==
  deltaAllocCPU(prof, scenario)
  + Trunc(prof.GCCPU, Scale + scenario.RegionAllocBytesFrac, Scale)
  + Trunc(prof.GCCPU,
          scenario.RegionAllocBytesFrac
            * (scenario.FadeAllocBytesFrac + scenario.ScannedRegionAllocBytesFrac)
            * scenario.RegionScanCostRatio, Scale * Scale * Scale)
  - prof.GCCPU
  + wbTestCPU(prof.PointerWrites)
  + fadeCPU(Trunc(prof.Allocs, scenario.RegionAllocsFrac * scenario.FadeAllocsFrac,
                  Scale * Scale),
            Trunc(prof.AllocBytes,
                  scenario.FadeAllocsPointerDensity
                    * scenario.RegionAllocBytesFrac * scenario.FadeAllocBytesFrac,
                  DensityScale * Scale * Scale))

deltaCPU(prof, scenario) ==
  deltaAllocCPU(prof, scenario)
  + Trunc(prof.GCCPU, Scale - scenario.RegionAllocBytesFrac, Scale)
  + Trunc(prof.GCCPU,
          scenario.RegionAllocBytesFrac
            * (scenario.FadeAllocBytesFrac + scenario.ScannedRegionAllocBytesFrac)
            * scenario.RegionScanCostRatio, Scale * Scale * Scale)
  - prof.GCCPU
  + wbTestCPU(prof.PointerWrites)
  + fadeCPU(Trunc(prof.Allocs, scenario.RegionAllocsFrac * scenario.FadeAllocsFrac,
                  Scale * Scale),
            Trunc(prof.AllocBytes,
                  scenario.FadeAllocsPointerDensity
                    * scenario.RegionAllocBytesFrac * scenario.FadeAllocBytesFrac,
                  DensityScale * Scale * Scale))

\* A duration d as a fraction of the profile's TotalCPU, in millionths, the
\* rest discarded: d / (TotalCPU * Milli) * 1000000.
CPUFrac(d, prof) ==
  IF d >= 0 THEN d \div prof.TotalCPU ELSE -((-d) \div prof.TotalCPU)

\* float64(TotalCPU + deltaCPU)/float64(TotalCPU) - 1.0, in millionths.
deltaCPUFrac(prof, scenario) == CPUFrac(deltaCPU(prof, scenario), prof)

\* The Scenario field a sweep parameter names.
param2Extractor ==
  [B_R |-> "RegionAllocBytesFrac", O_R |-> "RegionAllocsFrac",
   B_F |-> "FadeAllocBytesFrac", O_F |-> "FadeAllocsFrac",
   C_R |-> "RegionScanCostRatio", P_F |-> "FadeAllocsPointerDensity"]

\* A varyVar: the parameter its extract function names, and its range.
varyVar(param, lo, hi) == [param |-> param, lo |-> lo, hi |-> hi]

\* The nil *VaryProgram: no --vary flag was given.
NoProgram == [vars |-> <<>>, steps |-> 0]

\* A string of the program as the sequence of its characters; Join gives
\* the string back.
RECURSIVE Join(_)
Join(s) == IF s = <<>> THEN "" ELSE Head(s) \o Join(Tail(s))

\* strings.IndexByte, counting from 1: 0 when c is not in s.
IndexByte(s, c) ==
  IF \E k \in 1..Len(s) : s[k] = c
  THEN SetMin({k \in 1..Len(s) : s[k] = c})
  ELSE 0

\* s[k-1:] of a string s
From(s, k) == SubSeq(s, k, Len(s))

DigitValue(c) ==
  IF c = "0" THEN 0 ELSE IF c = "1" THEN 1 ELSE IF c = "2" THEN 2 ELSE 5
Digits == {"0", "1", "2", "5"}

\* The decimal number the digits of s spell, other characters skipped.
RECURSIVE DecValue(_, _)
DecValue(s, acc) ==
  IF s = <<>> THEN acc
  ELSE DecValue(Tail(s),
                IF Head(s) \in Digits THEN 10 * acc + DigitValue(Head(s)) ELSE acc)

RECURSIVE Pow10(_)
Pow10(n) == IF n = 0 THEN 1 ELSE 10 * Pow10(n - 1)

Unsigned(s) == IF s # <<>> /\ Head(s) \in {"+", "-"} THEN Tail(s) ELSE s

\* What strconv.ParseFloat accepts among the strings over Alphabet: an
\* optional sign, then digits with at most one point and at least one digit.
FloatSyntax(s) ==
  /\ \A k \in 1..Len(Unsigned(s)) : Unsigned(s)[k] \in Digits \cup {"."}
  /\ \E k \in 1..Len(Unsigned(s)) : Unsigned(s)[k] \in Digits
  /\ Cardinality({k \in 1..Len(Unsigned(s)) : Unsigned(s)[k] = "."}) <= 1

\* What strconv.ParseInt(s, 10, 64) accepts: an optional sign, then digits.
IntSyntax(s) ==
  /\ Unsigned(s) # <<>>
  /\ \A k \in 1..Len(Unsigned(s)) : Unsigned(s)[k] \in Digits

\* The unit a parameter's values are held in.
Unit(param) == IF param = "P_F" THEN DensityScale ELSE Scale

\* strconv.ParseFloat of an accepted string, in the units of param.
ParseFloat(s, param) ==
  (IF Head(s) = "-" THEN -1 ELSE 1)
    * ((DecValue(s, 0) * Unit(param))
         \div Pow10(IF IndexByte(s, ".") = 0 THEN 0 ELSE Len(s) - IndexByte(s, ".")))

ParseInt(s) == (IF Head(s) = "-" THEN -1 ELSE 1) * DecValue(s, 0)

\* The format of a --vary string as the flag's usage gives it:
\* <name1>=[<lo>:<hi>],<name2>=[<lo>:<hi>].../<steps>
VarFormat(t) ==
  \E a \in 1..Len(t), b \in 1..Len(t) :
    /\ a + 1 < b
    /\ t[a] = "=" /\ t[a + 1] = "[" /\ t[b] = ":" /\ t[Len(t)] = "]"
    /\ Join(SubSeq(t, 1, a - 1)) \in DOMAIN param2Extractor
    /\ FloatSyntax(SubSeq(t, a + 2, b - 1))
    /\ FloatSyntax(SubSeq(t, b + 1, Len(t) - 1))

RECURSIVE VarsFormat(_)
VarsFormat(t) ==
  \/ VarFormat(t)
  \/ \E j \in 1..Len(t) :
       /\ t[j] = ","
       /\ VarFormat(SubSeq(t, 1, j - 1))
       /\ VarsFormat(From(t, j + 1))

VaryFormat(s) ==
  \E k \in 1..Len(s) :
    /\ s[k] = "/"
    /\ VarsFormat(SubSeq(s, 1, k - 1))
    /\ IntSyntax(From(s, k + 1))

\* The results of parseVaryProgram: a program, an error value, or the
\* run-time panic of indexing an empty string.
ParseOk(vs, steps) == [status |-> "ok", prog |-> [vars |-> vs, steps |-> steps]]
ParseError == [status |-> "error", prog |-> NoProgram]
ParsePanic == [status |-> "panic", prog |-> NoProgram]

RECURSIVE ParseParam(_, _)

\* steps, err := strconv.ParseInt(vp, 10, 64)
ParseSteps(vp, vs) ==
  IF ~IntSyntax(vp) THEN ParseError ELSE ParseOk(vs, ParseInt(vp))

\* After the "]" of a range: "/" ends the loop, "," goes round it.
ParseSeparator(vp, vs) ==
  IF vp = <<>> THEN ParsePanic
  ELSE IF Head(vp) = "/" THEN ParseSteps(Tail(vp), vs)
  ELSE IF Head(vp) # "," THEN ParseError
  ELSE ParseParam(Tail(vp), vs)

\* hi up to the "]"
ParseHi(vp, param, lo, vs) ==
  IF IndexByte(vp, "]") = 0 THEN ParseError
  ELSE IF ~FloatSyntax(SubSeq(vp, 1, IndexByte(vp, "]") - 1)) THEN ParseError
  ELSE ParseSeparator(
         From(vp, IndexByte(vp, "]") + 1),
         Append(vs, varyVar(param, lo,
                            ParseFloat(SubSeq(vp, 1, IndexByte(vp, "]") - 1),
                                       param))))

\* lo up to the ":"
ParseLo(vp, param, vs) ==
  IF IndexByte(vp, ":") = 0 THEN ParseError
  ELSE IF ~FloatSyntax(SubSeq(vp, 1, IndexByte(vp, ":") - 1)) THEN ParseError
  ELSE ParseHi(From(vp, IndexByte(vp, ":") + 1), param,
               ParseFloat(SubSeq(vp, 1, IndexByte(vp, ":") - 1), param), vs)

\* The "[" after the "=": vp[0] of what is left.
ParseBracket(vp, param, vs) ==
  IF vp = <<>> THEN ParsePanic
  ELSE IF Head(vp) # "[" THEN ParseError
  ELSE ParseLo(Tail(vp), param, vs)

\* The head of the loop: the parameter name up to the "=".
ParseParam(vp, vs) ==
  IF IndexByte(vp, "=") = 0 THEN ParseError
  ELSE IF Join(SubSeq(vp, 1, IndexByte(vp, "=") - 1)) \notin DOMAIN param2Extractor
  THEN ParseError
  ELSE ParseBracket(From(vp, IndexByte(vp, "=") + 1),
                    Join(SubSeq(vp, 1, IndexByte(vp, "=") - 1)), vs)

parseVaryProgram(vp) == ParseParam(vp, <<>>)

\* The names of AppProfiles and of Scenarios, in their order.
AppNames ==
  <<<<"T", "i", "l", "e", "3", "8", "B", "e", "n", "c", "h">>,
    <<"E", "t", "c", "d", "P", "u", "t", "B", "e", "n", "c", "h">>,
    <<"E", "t", "c", "d", "S", "T", "M", "B", "e", "n", "c", "h">>>>
ScenarioNames ==
  <<<<"I", "d", "e", "a", "l", "B", "r", "o", "a", "d", "U", "s", "e">>,
    <<"B", "e", "s", "t", "P", "o", "s", "s", "i", "b", "l", "e">>,
    <<"W", "o", "r", "s", "t", "P", "o", "s", "s", "i", "b", "l", "e">>>>

\* A regular expression of Patterns without its ^ and $.
PatternBody(re) ==
  SubSeq(re, IF re # <<>> /\ Head(re) = "^" THEN 2 ELSE 1,
         IF re # <<>> /\ re[Len(re)] = "$" THEN Len(re) - 1 ELSE Len(re))

\* regexp.MatchString for the expressions of Patterns: whether s contains
\* a match of re. A literal matches where it occurs in s, at the start
\* only with ^ and up to the end only with $; .* matches everywhere.
MatchString(re, s) ==
  \/ PatternBody(re) = <<".", "*">>
  \/ \E k \in 1..(Len(s) + 1) :
       /\ k + Len(PatternBody(re)) - 1 <= Len(s)
       /\ SubSeq(s, k, k + Len(PatternBody(re)) - 1) = PatternBody(re)
       /\ Head(re) = "^" => k = 1
       /\ re[Len(re)] = "$" => k + Len(PatternBody(re)) - 1 = Len(s)

\* The sweep programs handed to Vary: one parameter over its range, the
\* sweep B_R=[0:1]/11, a sweep of no steps, two parameters (one of them
\* downwards), and a parameter listed twice.
VaryPrograms ==
  {[vars |-> <<varyVar(param, SweepRange(param).lo, SweepRange(param).hi)>>,
    steps |-> n] : param \in DOMAIN param2Extractor, n \in SweepSteps}
  \cup {[vars |-> <<varyVar("B_R", 0, 100)>>, steps |-> 11],
        [vars |-> <<varyVar("B_R", 0, 100)>>, steps |-> 0],
        [vars |-> <<varyVar("B_R", 0, 100)>>, steps |-> 1],
        [vars |-> <<varyVar("B_R", 50, 50), varyVar("O_F", 0, 100)>>,
         steps |-> 1],
        [vars |-> <<varyVar("B_R", 0, 100), varyVar("O_R", 100, 0)>>,
         steps |-> 3],
        [vars |-> <<varyVar("B_F", 0, 100), varyVar("O_F", 5, 5)>>,
         steps |-> 2],
        [vars |-> <<varyVar("B_R", 0, 100), varyVar("B_R", 0, 50)>>,
         steps |-> 3]}

\* The sweep programs of one parameter handed to the single-parameter Vary:
\* lo < hi, lo = hi and lo > hi, with zero and positive step counts.
SinglePrograms ==
  {[vars |-> <<varyVar(param, r[1], r[2])>>, steps |-> n] :
     param \in {"B_R", "O_F"}, r \in {<<0, 100>>, <<100, 100>>, <<100, 0>>},
     n \in {0, 1, 2}}

\* What the driver holds: the profile, the base scenario of the outer loop,
\* the scenario of the iterator and the deltaCPU and deltaAllocCPU written
\* for it last, the sweep program with its loop counter i, whether the
\* iterator has yielded (started) and has returned (done), the single
\* parameter being swept, the two results of the step of the sweep before,
\* the --vary string with the outcome of parsing it, the two filters, the
\* number of profiles the outer loop has passed, and the rows written as
\* pairs of an application and a scenario name.
NoCost ==
  [prof |-> [Name |-> "Small", TotalCPU |-> 1, GCCPU |-> 0, AllocBytes |-> 0,
             Allocs |-> 0, PointerWrites |-> 0],
   base |-> CHOOSE sc \in Scenarios : sc.Name = "BestPossible",
   scenario |-> CHOOSE sc \in Scenarios : sc.Name = "BestPossible",
   d |-> 0, alloc |-> 0, param |-> "none",
   prev |-> [set |-> FALSE, d |-> 0, alloc |-> 0],
   prog |-> NoProgram, i |-> 0, started |-> FALSE, done |-> FALSE,
   input |-> <<>>, status |-> "unparsed",
   appRe |-> <<".", "*">>, scnRe |-> <<".", "*">>, app |-> 0, rows |-> {}]

\* ------------------------------------------------------------ the program
\* The payload pointer Make returned for object o.
Payload(o) == blk[o.b].data + (o.hw + 1) * minAlign
\* The words of object o: header and payload.
ObjWords(o) == o.hw..(o.hw + AlignUp(o.size, 8) \div 8)

NoLast ==
  [op |-> "none", b |-> 0, hw |-> 0, size |-> 0, off |-> 0, found |-> 0,
   status |-> "", pre |-> FALSE, same |-> FALSE, fast |-> "", ref |-> "",
   priv |-> FALSE, dstEsc |-> FALSE, pair |-> FALSE, rep |-> FALSE,
   addr |-> 0]

\* The state after NewAllocator(blocks), blocks empty or one block with
\* reserved lines, before the first call.
\* allFakeTypes, and what the last call of NewFakeType did: the arguments,
\* the panic ("" for none) and the descriptor returned.
NoTypes ==
  [all |-> <<>>, called |-> FALSE, size |-> 0, ptrs |-> 0, gcdata |-> NilData,
   panic |-> "", typ |-> NilType]

Start ==
  /\ \/ /\ nblocks = 0
        /\ existing = <<>>
        /\ blk = [i \in 1..MaxBlocks |-> NoBlock]
     \/ \E lines \in ReservedLines :
          /\ nblocks = 1
          /\ existing = <<1>>
          /\ blk = [i \in 1..MaxBlocks |->
                      IF i = 1 THEN NewBlockFromExisting(1, lines) ELSE NoBlock]
  /\ main = 0
  /\ overflow = 0
  /\ full = 0
  /\ objs = {}
  /\ last = NoLast
  /\ ops = 0
  /\ crashed = "no"
  /\ ptrPercent \in PtrPercents
  /\ types = NoTypes

Init == Start /\ budget = MaxOps /\ cost = NoCost

InitBarrier == Start /\ budget = MaxBarrierOps /\ cost = NoCost

Install(a) ==
  /\ blk' = a.blk
  /\ main' = a.main
  /\ overflow' = a.overflow
  /\ full' = a.full
  /\ existing' = a.existing
  /\ nblocks' = a.nblocks

\* r is the result of Make, hw the header word index of the new object.
MakeStep(r, hw, size) ==
  /\ ops' = ops + 1
  /\ Install(r.a)
  /\ UNCHANGED <<ptrPercent, budget, cost, types>>
  /\ IF r.addr = 0
     THEN /\ crashed' = "noreturn"
          /\ objs' = objs
          /\ last' = [NoLast EXCEPT !.op = "Make", !.size = size,
                                    !.status = "noreturn"]
     ELSE /\ crashed' = crashed
          /\ objs' = objs \cup {[b |-> r.in, hw |-> hw, size |-> size]}
          /\ last' = [NoLast EXCEPT !.op = "Make", !.size = size, !.b = r.in,
                                    !.hw = hw, !.status = "returned",
                                    !.addr = r.addr + headerSize]

HeaderWord(r) ==
  IF r.addr = 0 THEN 0 ELSE (r.addr - r.a.blk[r.in].data) \div minAlign

MakeResult(r, size) == MakeStep(r, HeaderWord(r), size)

\* x := a.Make(size, makeFakeType(size, ptrPercent)); the caller keeps x.
Make(size) ==
  /\ crashed = "no"
  /\ ops < budget
  /\ nblocks < MaxBlocks
  /\ MakeResult(MakeAlloc(Alloc, size, MakeFakeType(size, ptrPercent)), size)

\* x := a.Make(size, makeFakeType(tsize, ptrPercent)): Make takes the size
\* and the type as two arguments.
MakeTyped(size, tsize) ==
  /\ crashed = "no"
  /\ ops < budget
  /\ nblocks < MaxBlocks
  /\ MakeResult(MakeAlloc(Alloc, size, MakeFakeType(tsize, ptrPercent)), size)

\* r is the result of MarkEscaped on block id.
MarkStep(o, off, id, r) ==
  /\ ops' = ops + 1
  /\ blk' = [blk EXCEPT ![id] = r.b]
  /\ crashed' = IF r.status = "ok" THEN crashed ELSE r.status
  /\ last' = [NoLast EXCEPT !.op = "MarkEscaped", !.b = o.b, !.hw = o.hw,
                            !.size = o.size, !.off = off, !.found = r.found,
                            !.status = r.status,
                            !.pre = (blk[id].EscBits = {}),
                            !.same = (r.b.ObjBits = blk[id].ObjBits),
                            !.rep = (/\ last.op = "MarkEscaped"
                                     /\ last.b = o.b /\ last.hw = o.hw
                                     /\ last.off = off)]
  /\ UNCHANGED <<main, overflow, full, existing, nblocks, objs, ptrPercent, budget,
                 cost, types>>

\* cpusim.MarkEscaped(x + off) for a pointer x the caller holds.
Mark(o, off) ==
  /\ crashed = "no"
  /\ ops < budget
  /\ MarkStep(o, off, o.b, MarkEscaped(blk[o.b], Payload(o) + off))

\* a.Reset(); the pointers into the blocks that are reset are dropped.
Reset ==
  LET a == AllocReset(Alloc)
  IN /\ crashed = "no"
     /\ ops < budget
     /\ ops' = ops + 1
     /\ Install(a)
     /\ objs' = {o \in objs : o.b \notin FullList(Alloc, full)}
     /\ last' = [NoLast EXCEPT !.op = "Reset"]
     /\ UNCHANGED <<crashed, ptrPercent, budget, cost, types>>

\* The pointers handed to the barrier: nil, a heap address, and pointers
\* into the objects the caller holds.
RegionPtrs == UNION {{Payload(o) + off : off \in Offsets(o.size)} : o \in objs}

\* The addresses below MinRegionAddress handed to the barrier.
HeapPtrs(MinRegionAddress) == IF MinRegionAddress > 0 THEN {HeapAddr} ELSE {}

\* RegionWriteBarrierFastPath(ptr, dst), with the reference barrier run on
\* the same arguments.
Barrier(ptr, dst, MinRegionAddress) ==
  /\ crashed = "no"
  /\ last.op # "Barrier"
  /\ last' = [NoLast EXCEPT
       !.op = "Barrier",
       !.fast = BarrierFastPath(ptr, dst, MinRegionAddress),
       !.ref = BarrierReference(ptr, dst, MinRegionAddress),
       !.priv = (ptr # 0 /\ ptr >= MinRegionAddress /\ ptr \in RegionPtrs
                 /\ ~EscBit(ptr \div BlockSize, (ptr % BlockSize) \div 8)),
       !.dstEsc = (dst < MinRegionAddress
                   \/ (dst \in RegionPtrs
                       /\ EscBit(dst \div BlockSize, (dst % BlockSize) \div 8))),
       !.pair = (\E o1, o2 \in objs :
                   o1 # o2 /\ ptr = Payload(o1) /\ dst = Payload(o2))]
  /\ UNCHANGED <<blk, main, overflow, full, existing, nblocks, objs, ops, crashed,
                 ptrPercent, budget, cost, types>>

\* A 64-bit word holding the address addr.  Read as a header it has size
\* field 0 and a type pointer that is not nil.
PtrWord(addr) ==
  [typ |-> [nil |-> FALSE, Size_ |-> 0, PtrBytes |-> 0,
            GCData |-> NilData],
   words |-> 0, ptr |-> addr]

\* *(*uintptr)(dst) = uintptr(ptr), dst and ptr the payload pointers of the
\* objects d and s.
Store(d, s) ==
  /\ crashed = "no"
  /\ ops < budget
  /\ ops' = ops + 1
  /\ blk' = [blk EXCEPT ![d.b].mem = ((d.hw + 1) :> PtrWord(Payload(s))) @@ @]
  /\ last' = [NoLast EXCEPT !.op = "Store", !.b = d.b, !.hw = d.hw,
                            !.size = d.size]
  /\ UNCHANGED <<main, overflow, full, existing, nblocks, objs, crashed,
                 ptrPercent, budget, cost, types>>

\* The float64 NaN, which no parameter value equals.
NaN == -1000000

\* deltaCPU and deltaAllocCPU as writeRecord computes them.  Every parameter
\* enters a float64 that deltaCPU converts to an integer, and Go leaves the
\* conversion of a NaN to the implementation: with a NaN parameter any
\* duration may result, two stand for them here.
Durations(prof, scenario) ==
  IF \E f \in DOMAIN scenario \ {"Name"} : scenario[f] = NaN
  THEN [d : {-1, 0}, alloc : {-1, 0}]
  ELSE {[d |-> deltaCPU(prof, scenario), alloc |-> deltaAllocCPU(prof, scenario)]}

\* The driver's body of the loop over a sweep: writeRecord for the scenario
\* yielded.
VaryStep(scenario, i) ==
  /\ \E r \in Durations(cost.prof, scenario) :
       cost' = [cost EXCEPT !.scenario = scenario,
                          !.d = r.d,
                          !.alloc = r.alloc,
                          !.i = i,
                          !.started = TRUE,
                          !.prev = IF cost.started
                                   THEN [set |-> TRUE, d |-> cost.d,
                                         alloc |-> cost.alloc]
                                   ELSE NoCost.prev]
  /\ UNCHANGED <<blk, main, overflow, full, existing, nblocks, objs, last, ops,
                 crashed, ptrPercent, budget, types>>

\* Interpolate with the increment of the single-parameter Vary,
\* (v.hi - v.lo) / steps.
InterpolateBySteps(v, steps, i) == v.lo + ((v.hi - v.lo) * i) \div steps
\* v.lo + inc*i with inc = (v.hi - v.lo) / (steps - 1): with steps = 1 inc
\* is an infinity or NaN, inc*0 is NaN and so is the sum.
Interpolate(v, steps, i) ==
  IF steps = 1 THEN NaN ELSE v.lo + ((v.hi - v.lo) * i) \div (steps - 1)

\* The inner loop of Vary: every variable of the program, in order, is
\* written through its extract function into the iterator's scenario.
RECURSIVE VaryAssign(_, _, _, _)
VaryAssign(scenario, vs, steps, i) ==
  IF vs = <<>> THEN scenario
  ELSE VaryAssign([scenario EXCEPT ![param2Extractor[Head(vs).param]] =
                     Interpolate(Head(vs), steps, i)],
                  Tail(vs), steps, i)

\* One iteration of the loop of VaryProgram.Vary, with the driver's body.
Vary ==
  /\ cost.prog # NoProgram
  /\ cost.i < cost.prog.steps
  /\ VaryStep(VaryAssign(cost.scenario, cost.prog.vars, cost.prog.steps, cost.i),
              cost.i + 1)

\* The value of *p when the loop of the single-parameter Vary tests it next:
\* lo at first, then *p + inc with inc = (hi - lo) / steps. With steps = 0,
\* inc is +Inf (lo < hi) or NaN (lo = hi) and so is the sum, which fails the
\* test *p <= hi: nan is TRUE then.
SingleAdvance(v, steps, started, p) ==
  IF ~started THEN [nan |-> FALSE, p |-> v.lo]
  ELSE IF steps = 0 THEN [nan |-> TRUE, p |-> p]
  ELSE [nan |-> FALSE, p |-> p + (v.hi - v.lo) \div steps]

SingleStep(v, n) ==
  IF ~n.nan /\ n.p <= v.hi
  THEN VaryStep([cost.scenario EXCEPT ![param2Extractor[v.param]] = n.p], 0)
  ELSE /\ cost' = [cost EXCEPT !.done = TRUE]
       /\ UNCHANGED <<blk, main, overflow, full, existing, nblocks, objs, last,
                      ops, crashed, ptrPercent, budget, types>>

\* One test of the loop of the single-parameter VaryProgram.Vary, with the
\* driver's body when the test passes.
VarySingle ==
  /\ cost.prog # NoProgram
  /\ ~cost.done
  /\ SingleStep(cost.prog.vars[1],
                SingleAdvance(cost.prog.vars[1], cost.prog.steps, cost.started,
                              cost.scenario[param2Extractor[cost.prog.vars[1].param]]))

\* The parameter a program of one variable sweeps.
SweptParam(prog) ==
  IF prog = NoProgram THEN "none"
  ELSE IF Len(prog.vars) = 1 THEN prog.vars[1].param
  ELSE "several"

\* The driver parses the --vary flag; an error value makes run return it
\* (exit code 1), a panic ends the process.
ParseResult(r) ==
  /\ cost' = [cost EXCEPT !.status = r.status, !.prog = r.prog,
                          !.param = SweptParam(r.prog)]
  /\ UNCHANGED <<blk, main, overflow, full, existing, nblocks, objs, last, ops,
                 crashed, ptrPercent, budget, types>>

ParseVary ==
  /\ cost.status = "unparsed"
  /\ cost.input # <<>>
  /\ ParseResult(parseVaryProgram(cost.input))

\* typ := NewFakeType(size, ptrs, gcdata), called by the program itself.
NewType(size, ptrs, gcdata) ==
  /\ Len(types.all) < MaxTypes
  /\ types' =
       IF NewFakeTypePanic(size, ptrs, gcdata) # ""
       THEN [types EXCEPT !.called = TRUE, !.size = size, !.ptrs = ptrs,
                          !.gcdata = gcdata,
                          !.panic = NewFakeTypePanic(size, ptrs, gcdata),
                          !.typ = NilType]
       ELSE [types EXCEPT !.called = TRUE, !.size = size, !.ptrs = ptrs,
                          !.gcdata = gcdata, !.panic = "",
                          !.typ = NewFakeType(size, ptrs, gcdata),
                          !.all = Append(types.all,
                                         NewFakeType(size, ptrs, gcdata))]
  /\ UNCHANGED <<blk, main, overflow, full, existing, nblocks, objs, last, ops,
                 crashed, ptrPercent, budget, cost>>

\* One iteration of the outer loop of run without a sweep: the profile is
\* skipped unless appRegexp matches its name, and a record is written for
\* every scenario whose name scnRegexp matches.
FilterApp ==
  /\ cost.app < Len(AppNames)
  /\ cost' = [cost EXCEPT
                !.app = cost.app + 1,
                !.rows = cost.rows
                  \cup (IF MatchString(cost.appRe, AppNames[cost.app + 1])
                        THEN {<<AppNames[cost.app + 1], ScenarioNames[k]>> :
                                k \in {j \in 1..Len(ScenarioNames) :
                                         MatchString(cost.scnRe, ScenarioNames[j])}}
                        ELSE {})]
  /\ UNCHANGED <<blk, main, overflow, full, existing, nblocks, objs, last, ops,
                 crashed, ptrPercent, budget, types>>

Next ==
  \/ \E size \in Sizes : Make(size)
  \/ \E o \in objs : \E off \in Offsets(o.size) : Mark(o, off)
  \/ Reset

\* The barrier changes nothing of the allocator or the blocks, so a behaviour
\* ends with its barrier call.
NextBarrier ==
  \/ last.op # "Barrier" /\ Next
  \/ \E MinRegionAddress \in MinRegionChoices :
       \E ptr \in RegionPtrs \cup HeapPtrs(MinRegionAddress) \cup {0},
          dst \in RegionPtrs \cup HeapPtrs(MinRegionAddress) :
         Barrier(ptr, dst, MinRegionAddress)

Spec == Init /\ [][Next]_vars

SpecBarrier == InitBarrier /\ [][NextBarrier]_vars

InitStore == Start /\ budget = MaxStoreOps /\ cost = NoCost

\* The program also stores pointers to objects into other objects.
NextStore ==
  \/ Next
  \/ \E d \in objs : \E s \in objs \ {d} : Store(d, s)

SpecStore == InitStore /\ [][NextStore]_vars

InitTyped == Start /\ budget = MaxTypedOps /\ cost = NoCost

\* The program also calls Make with a type built for another size.
NextTyped ==
  \/ Next
  \/ \E size \in Sizes : \E tsize \in TypeSizes : MakeTyped(size, tsize)

SpecTyped == InitTyped /\ [][NextTyped]_vars

\* The driver at the head of its inner loop: a profile that matched, a base
\* scenario that matched and the program, if any; without a program the
\* record of the base scenario is written.
InitDriver(profs, scenarios, progs) ==
  /\ Start
  /\ existing = <<>>
  /\ ptrPercent = 0
  /\ budget = 0
  /\ \E prof \in profs : \E scenario \in scenarios : \E prog \in progs :
       cost = [NoCost EXCEPT !.prof = prof, !.base = scenario,
                             !.scenario = scenario,
                             !.d = IF prog = NoProgram
                                   THEN deltaCPU(prof, scenario) ELSE 0,
                             !.alloc = IF prog = NoProgram
                                       THEN deltaAllocCPU(prof, scenario) ELSE 0,
                             !.prog = prog, !.param = SweptParam(prog)]

InitCost ==
  InitDriver(Profiles \cup AppProfiles, Scenarios \cup BaseScenarios,
             VaryPrograms \cup {NoProgram})

NextCost == Vary

SpecCost == InitCost /\ [][NextCost]_vars

\* The driver with its two filters and no sweep.
InitFilter ==
  /\ Start
  /\ existing = <<>>
  /\ ptrPercent = 0
  /\ budget = 0
  /\ \E appRe \in Patterns, scnRe \in Patterns :
       cost = [NoCost EXCEPT !.appRe = appRe, !.scnRe = scnRe]

NextFilter == FilterApp

SpecFilter == InitFilter /\ [][NextFilter]_vars

\* A program that only builds type descriptors.
InitType ==
  /\ Start
  /\ existing = <<>>
  /\ ptrPercent = 0
  /\ budget = 0
  /\ cost = NoCost

NextType ==
  \E size \in NewTypeSizes, ptrs \in NewTypeSizes, gcdata \in NewTypeBuffers :
    NewType(size, ptrs, gcdata)

SpecType == InitType /\ [][NextType]_vars

\* The driver up to the parsing of its --vary flag.
InitParse ==
  /\ Start
  /\ existing = <<>>
  /\ ptrPercent = 0
  /\ budget = 0
  /\ \E input \in VaryInputs : cost = [NoCost EXCEPT !.input = input]

NextParse == ParseVary

SpecParse == InitParse /\ [][NextParse]_vars

\* The driver with the single-parameter Vary.
InitSingle == InitDriver(Profiles, Scenarios, SinglePrograms)

NextSingle == VarySingle

\* The driver goes on while it has something to do.
SpecSingle == InitSingle /\ [][NextSingle]_vars /\ WF_vars(NextSingle)

\* ------------------------------------------------------------ properties
\* C1: MarkEscaped(x), x the payload pointer Make returned for an object of
\* a size that is a multiple of 8 in a block whose EscBits are all zero,
\* sets EscBits exactly at the words hw .. hw + size/8 and leaves ObjBits
\* as it was.
C1_EscapeExact ==
  (last.op = "MarkEscaped" /\ last.off = 0 /\ last.pre /\ last.size % 8 = 0)
    => /\ last.status = "ok"
       /\ blk[last.b].EscBits = last.hw..(last.hw + last.size \div 8)
       /\ last.same

\* C1 happens: an object that spans two bitmap words is marked through its
\* payload pointer in a pristine block.
C1_Witness ==
  /\ last.op = "MarkEscaped" /\ last.off = 0 /\ last.pre
  /\ last.size = 240 /\ last.hw = 34
  /\ blk[last.b].EscBits = 34..64

\* C2: for any address inside the payload of an object, MarkEscaped locates
\* that object's own header word index.
C2_ObjectStart ==
  last.op = "MarkEscaped" => last.found = last.hw

\* C3: after MarkEscaped(p), p inside object O, every line from the line of
\* O's header to the line of O's last payload byte is set in LineEscape.
C3_LinesMarked ==
  (last.op = "MarkEscaped" /\ last.status = "ok")
    => \A l \in ((last.hw * 8) \div lineSize)..
                 ((last.hw * 8 + headerSize + last.size - 1) \div lineSize) :
         l \in blk[last.b].LineEscape

\* C4: no Make returns an object that overlaps a word whose EscBits bit is
\* set.
C4_NoReuseOfEscaped ==
  (last.op = "Make" /\ last.status = "returned")
    => (last.hw..(last.hw + AlignUp(last.size, 8) \div 8))
         \cap blk[last.b].EscBits = {}

\* C5: immediately after a successful Make the ObjBits bit of the header
\* word is set and no other ObjBits bit is set inside the new object.
C5_ObjBitsConsistent ==
  (last.op = "Make" /\ last.status = "returned")
    => /\ last.hw \in blk[last.b].ObjBits
       /\ ((last.hw + 1)..(last.hw + AlignUp(last.size, 8) \div 8))
            \cap blk[last.b].ObjBits = {}

\* C6: when the fast barrier returns without invoking escape propagation,
\* ptr is not region-private while dst is escaped or heap.
C6_BarrierSafety ==
  (last.op = "Barrier" /\ last.fast = "return") => ~(last.priv /\ last.dstEsc)

\* C7: the fast barrier invokes dummyMarkEscaped exactly when the reference
\* barrier does.
C7_FastEqualsReference ==
  last.op = "Barrier" => (last.fast = "invoke" <=> last.ref = "invoke")

\* C8: when every allocated object has been marked escaped, the fast barrier
\* never invokes dummyMarkEscaped for payload pointers of two objects.
C8_AllEscapedNoInvoke ==
  (/\ last.op = "Barrier" /\ last.pair
   /\ \A o \in objs : ObjWords(o) \subseteq blk[o.b].EscBits)
    => last.fast # "invoke"

\* C9 as stated: with all EscBits zero and ptr, dst payload pointers of two
\* different region objects, the fast barrier invokes dummyMarkEscaped.
C9_NoneEscapedInvokes ==
  (/\ last.op = "Barrier" /\ last.pair
   /\ \A i \in 1..nblocks : blk[i].EscBits = {})
    => last.fast = "invoke"

\* C9 amended: with all EscBits zero and ptr, dst payload pointers of two
\* different region objects, the fast barrier returns without invoking
\* dummyMarkEscaped, as the reference barrier does.
C9_NoneEscapedReturns ==
  (/\ last.op = "Barrier" /\ last.pair
   /\ \A i \in 1..nblocks : blk[i].EscBits = {})
    => (last.fast = "return" /\ last.ref = "return")

\* C9 happens: a write between two objects with nothing escaped.
C9_Witness ==
  /\ last.op = "Barrier" /\ last.pair
  /\ \A i \in 1..nblocks : blk[i].EscBits = {}
  /\ Cardinality(objs) >= 2

\* C10: every call of Make terminates and returns a pointer.
C10_MakeReturns ==
  last.op = "Make" => last.status = "returned"

\* C11: after MarkEscaped(p) on an object whose type has pointer slots,
\* every object referenced by a non-null pointer in a pointer slot has its
\* EscBits set as well, and the call completes normally.
C11_TransitiveEscape ==
  (last.op = "MarkEscaped" /\ last.found = last.hw)
    => \A q \in objs :
         (\E k \in PtrSlots(Load(blk[last.b], last.hw).typ, last.size) :
            Load(blk[last.b], last.hw + 1 + k) = PtrWord(Payload(q)))
           => /\ last.status = "ok"
              /\ ObjWords(q) \subseteq blk[q.b].EscBits

\* C12: a second MarkEscaped(p) immediately after the first leaves EscBits,
\* ObjBits and LineEscape of the block as the first call left them.
C12_Idempotent ==
  [][(/\ last.op = "MarkEscaped" /\ last'.op = "MarkEscaped"
      /\ last'.b = last.b /\ last'.hw = last.hw /\ last'.off = last.off)
       => /\ blk'[last.b].EscBits = blk[last.b].EscBits
          /\ blk'[last.b].ObjBits = blk[last.b].ObjBits
          /\ blk'[last.b].LineEscape = blk[last.b].LineEscape]_vars

\* C12 happens: MarkEscaped has been called twice in a row on the same
\* interior pointer of an object.
C12_Witness ==
  /\ last.op = "MarkEscaped" /\ last.rep /\ last.status = "ok"
  /\ last.off > 0
  /\ blk[last.b].EscBits # {}

\* C13: a bit of EscBits or LineEscape that is set stays set across every
\* Make, MarkEscaped, Block.Reset and Allocator.Reset.
C13_EscapeBitsKept ==
  [][\A i \in 1..MaxBlocks :
       /\ blk[i].EscBits \subseteq blk'[i].EscBits
       /\ blk[i].LineEscape \subseteq blk'[i].LineEscape]_vars

\* C13 happens: Allocator.Reset has reset a block that holds escaped words
\* and has pushed it on the free stack.
C13_Witness ==
  /\ last.op = "Reset"
  /\ \E k \in 1..Len(existing) :
       /\ blk[existing[k]].EscBits # {}
       /\ blk[existing[k]].LineEscape # {}
       /\ blk[existing[k]].cursor = 0

\* C14: bits 0 and 1 of LineEscape are set in every block created by
\* NewBlock or NewBlockFromExisting, in every reachable state.
C14_ReservedLinesEscaped ==
  \A i \in 1..nblocks : {0, 1} \subseteq blk[i].LineEscape

\* C15: every payload pointer Make returns is 8-byte aligned, and the
\* object, header and padded payload, lies within [base + 272, base + 8192)
\* of its block.
C15_AlignedInsideBlock ==
  (last.op = "Make" /\ last.status = "returned")
    => /\ last.addr % 8 = 0
       /\ Contains(blk[last.b], last.addr)
       /\ Base(blk[last.b]) + 2 * lineSize + 16 <= last.addr - headerSize
       /\ last.addr - headerSize + AlignUp(last.size + headerSize, minAlign)
            <= Base(blk[last.b]) + BlockSize

\* C15 happens: a size that is not a multiple of 8 is allocated at the very
\* start of the usable part of a block that has been reset.
C15_Witness ==
  /\ last.op = "Make" /\ last.status = "returned"
  /\ last.size = 20
  /\ last.addr = Base(blk[last.b]) + 2 * lineSize + 16 + headerSize
  /\ last.b = 1 /\ main = 1 /\ overflow = 0 /\ nblocks = 2

\* C16: for every object Make(size, typ) produces, size rounded up to a
\* multiple of 8 does not exceed the Size of typ.
C16_SizeWithinType ==
  (last.op = "Make" /\ last.status = "returned")
    => AlignUp(last.size, 8) <= Load(blk[last.b], last.hw).typ.Size_

\* C17: BlockOf(x), x the pointer the most recent Make returned, is a block
\* that contains x and whose base is x rounded down to 8192, for x in the
\* main block and for x in the overflow block.
C17_BlockOfLast ==
  (last.op = "Make" /\ last.status = "returned")
    => /\ BlockOf(Alloc, last.addr) > 0
       /\ Contains(blk[BlockOf(Alloc, last.addr)], last.addr)
       /\ Base(blk[BlockOf(Alloc, last.addr)]) = AlignDown(last.addr, BlockSize)

\* C17 happens: the most recent Make has placed its object in the overflow
\* block, and BlockOf finds it there.
C17_Witness ==
  /\ last.op = "Make" /\ last.status = "returned"
  /\ overflow # 0 /\ last.b = overflow
  /\ BlockOf(Alloc, last.addr) = overflow

\* C18: every block the allocator has created or was given is held in
\* exactly one of main, overflow, the full list and the free stack
\* existing.
C18_BlocksRetained ==
  crashed = "no"
    => \A i \in 1..nblocks :
         Cardinality({p \in {"main", "overflow", "full", "existing"} :
                        \/ p = "main" /\ main = i
                        \/ p = "overflow" /\ overflow = i
                        \/ p = "full" /\ i \in FullList(Alloc, full)
                        \/ p = "existing"
                             /\ \E k \in 1..Len(existing) : existing[k] = i}) = 1

\* C19: deltaCPU does not decrease when exactly one of B_F, O_F, C_R is
\* increased and everything else is held fixed, truncations included.
C19_MonotoneUp ==
  (cost.param \in {"B_F", "O_F", "C_R"} /\ cost.prev.set)
    => cost.d >= cost.prev.d

\* C19 happens: a sweep has raised B_F, and deltaCPU has grown.
C19_Witness ==
  /\ cost.param = "B_F" /\ cost.prev.set
  /\ cost.d > cost.prev.d
  /\ cost.prof.Allocs > 0

\* C20 as stated: with B_F = B_S = 0, deltaCPU does not increase when B_R
\* is increased, for every profile.
C20_MonotoneDown ==
  (/\ cost.param = "B_R" /\ cost.prev.set
   /\ cost.scenario.FadeAllocBytesFrac = 0
   /\ cost.scenario.ScannedRegionAllocBytesFrac = 0)
    => cost.d <= cost.prev.d

\* C20 amended: with B_F = B_S = 0, the part of deltaCPU that is not
\* deltaAllocCPU, the GC, barrier and fade cost, does not increase when B_R
\* is increased.
C20_GCMonotoneDown ==
  (/\ cost.param = "B_R" /\ cost.prev.set
   /\ cost.scenario.FadeAllocBytesFrac = 0
   /\ cost.scenario.ScannedRegionAllocBytesFrac = 0)
    => cost.d - cost.alloc <= cost.prev.d - cost.prev.alloc

\* C20 happens: a sweep has raised B_R with no fading and no scanning; the
\* GC cost has gone down while deltaCPU has gone up.
C20_Witness ==
  /\ cost.param = "B_R" /\ cost.prev.set
  /\ cost.scenario.FadeAllocBytesFrac = 0
  /\ cost.scenario.ScannedRegionAllocBytesFrac = 0
  /\ cost.d - cost.alloc < cost.prev.d - cost.prev.alloc
  /\ cost.d > cost.prev.d

\* C21: for the embedded profile EtcdPutBench and the scenario BestPossible
\* the driver reports a total delta of -1.66 +/- 0.1 percent of TotalCPU, a
\* write-barrier cost of about 0.92 percent and an alloc delta of about
\* -0.05 percent (fractions in millionths).
C21_EndToEnd ==
  (/\ cost.prof.Name = "EtcdPutBench"
   /\ cost.scenario.Name = "BestPossible"
   /\ cost.param = "none")
    => /\ CPUFrac(cost.d, cost.prof) \in (-17600)..(-15600)
       /\ CPUFrac(wbTestCPU(cost.prof.PointerWrites), cost.prof) \in 9150..9249
       /\ CPUFrac(cost.alloc, cost.prof) \in (-549)..(-450)

\* C22: in the sweep B_R=[0:1]/11 over IdealBroadUse and EtcdPutBench the
\* 11 values of deltaCPU written go down from each step to the next, the
\* one at B_R = 0.0 is positive and those from B_R = 0.2 on are negative.
C22_SweepCrossesZero ==
  (/\ cost.prof.Name = "EtcdPutBench"
   /\ cost.base.Name = "IdealBroadUse"
   /\ cost.prog = [vars |-> <<varyVar("B_R", 0, 100)>>, steps |-> 11]
   /\ cost.started)
    => /\ cost.i <= 11
       /\ cost.prev.set => cost.d < cost.prev.d
       /\ cost.scenario.RegionAllocBytesFrac = 0 => cost.d > 0
       /\ cost.scenario.RegionAllocBytesFrac >= 20 => cost.d < 0

\* C23 as stated: a sweep of N >= 2 steps yields at most N scenarios (N when
\* the loop has ended), the i-th (from 0) with every listed parameter at
\* LO + i*(HI-LO)/(N-1) of its listing, the Name and the unlisted fields
\* those of the base scenario, and the base scenario is not changed.
C23_SweepLinear ==
  [][cost.prog.steps >= 2 =>
       /\ cost'.base = cost.base
       /\ cost'.i = cost.i + 1
       /\ cost'.i <= cost.prog.steps
       /\ \A k \in 1..Len(cost.prog.vars) :
            cost'.scenario[param2Extractor[cost.prog.vars[k].param]]
                * (cost.prog.steps - 1)
              = cost.prog.vars[k].lo * (cost.prog.steps - 1)
                  + cost.i * (cost.prog.vars[k].hi - cost.prog.vars[k].lo)
       /\ cost'.scenario.Name = cost.base.Name
       /\ \A f \in DOMAIN cost.base :
            (\A k \in 1..Len(cost.prog.vars) :
               param2Extractor[cost.prog.vars[k].param] # f)
              => cost'.scenario[f] = cost.base[f]]_vars

\* C23 amended: the same, where a parameter listed more than once follows
\* the range of its last listing.
C23_SweepLinearLast ==
  [][cost.prog.steps >= 2 =>
       /\ cost'.base = cost.base
       /\ cost'.i = cost.i + 1
       /\ cost'.i <= cost.prog.steps
       /\ \A k \in 1..Len(cost.prog.vars) :
            (\A j \in (k + 1)..Len(cost.prog.vars) :
               cost.prog.vars[j].param # cost.prog.vars[k].param)
              => cost'.scenario[param2Extractor[cost.prog.vars[k].param]]
                     * (cost.prog.steps - 1)
                   = cost.prog.vars[k].lo * (cost.prog.steps - 1)
                       + cost.i * (cost.prog.vars[k].hi - cost.prog.vars[k].lo)
       /\ cost'.scenario.Name = cost.base.Name
       /\ \A f \in DOMAIN cost.base :
            (\A k \in 1..Len(cost.prog.vars) :
               param2Extractor[cost.prog.vars[k].param] # f)
              => cost'.scenario[f] = cost.base[f]]_vars

\* C23 happens: the last scenario of a sweep of three steps that lists B_R
\* twice has been yielded, with B_R at the HI of the second listing and
\* not of the first.
C23_Witness ==
  /\ Len(cost.prog.vars) = 2
  /\ cost.prog.vars[1].param = cost.prog.vars[2].param
  /\ cost.i = cost.prog.steps
  /\ cost.scenario.RegionAllocBytesFrac = cost.prog.vars[2].hi
  /\ cost.scenario.RegionAllocBytesFrac # cost.prog.vars[1].hi
  /\ cost.base.RegionAllocBytesFrac # cost.scenario.RegionAllocBytesFrac

\* C24: the sequence of scenarios a sweep yields is finite: the iterator
\* of every program returns in the end.
C24_SweepEnds == <>cost.done

\* C25: a --vary string that is not of the form
\* PARAM=[LO:HI](,PARAM=[LO:HI])*/STEPS makes parseVaryProgram return an
\* error value: it is neither accepted nor does the parser fault on it.
C25_MalformedRejected ==
  (cost.status # "unparsed" /\ ~VaryFormat(cost.input))
    => cost.status = "error"

\* C26: NewFakeType(size, ptrs, gcdata) panics, registering no descriptor,
\* when ptrs > size or when len(gcdata) is not a multiple of the pointer
\* size; otherwise it registers and returns a descriptor whose Size_ and
\* PtrBytes are size and ptrs rounded up to a multiple of 8, PtrBytes <= Size_.
C26_NewFakeTypeChecked ==
  [][IF types'.ptrs > types'.size \/ types'.gcdata.len % 8 # 0
     THEN /\ types'.panic # ""
          /\ types'.all = types.all
     ELSE /\ types'.panic = ""
          /\ types'.all = Append(types.all, types'.typ)
          /\ ~types'.typ.nil
          /\ types'.typ.Size_ % 8 = 0
          /\ types'.typ.Size_ \in types'.size..(types'.size + 7)
          /\ types'.typ.PtrBytes % 8 = 0
          /\ types'.typ.PtrBytes \in types'.ptrs..(types'.ptrs + 7)
          /\ types'.typ.PtrBytes <= types'.typ.Size_]_vars

\* C26 happens: after a descriptor with sizes rounded up from 12 was
\* registered, a call with a buffer of 4 bytes has panicked and has
\* registered nothing.
C26_Witness ==
  /\ types.called
  /\ types.panic = "gc data must be rounded to the pointer size"
  /\ Len(types.all) = 1
  /\ types.all[1].Size_ = 16 /\ types.all[1].PtrBytes = 16
  /\ types.ptrs <= types.size

\* C27: a descriptor built from an empty gcdata buffer has a nil GCData
\* and PtrBytes = 0, whatever size and ptrs it was built with.
C27_EmptyBufferNoPointers ==
  (types.called /\ types.panic = "" /\ types.gcdata.len = 0)
    => /\ types.typ.GCData = NilData
       /\ types.typ.PtrBytes = 0

\* C28: the --app and --scenario filters are anchored: a row is written
\* for an application and a scenario only if each regular expression
\* matches the whole name (as the expression between ^ and $ does).
C28_FiltersAnchored ==
  \A row \in cost.rows :
    /\ MatchString(<<"^">> \o PatternBody(cost.appRe) \o <<"$">>, row[1])
    /\ MatchString(<<"^">> \o PatternBody(cost.scnRe) \o <<"$">>, row[2])

\* C29: Block.Reset clears ObjBits exactly for the free lines: for every
\* line k of a block that Allocator.Reset resets, the 16 ObjBits bits of
\* line k are all zero afterwards if bit k of LineEscape | 0b11 is 0, and
\* are as before if that bit is 1.
C29_ResetClearsFreeLines ==
  [][last'.op = "Reset" =>
       \A i \in FullList(Alloc, full) : \A k \in 0..(NumLines - 1) :
         {w \in blk'[i].ObjBits : w \div 16 = k}
           = IF k \in blk[i].LineEscape \cup {0, 1}
             THEN {w \in blk[i].ObjBits : w \div 16 = k}
             ELSE {}]_vars

\* The lowest maximal run [lo, hi) of lines free in lineAlloc S, S not full.
FreeRunLo(S) == SetMin((0..63) \ S)
FreeRunHi(S) == SetMin({e \in (FreeRunLo(S) + 1)..64 : e = 64 \/ e \in S})

\* What refill does to block b, as stated in C30.
RefillAsStated(b) ==
  IF (0..63) \subseteq b.lineAlloc
  THEN Refill(b) = [ok |-> FALSE, b |-> b]
  ELSE LET lo == FreeRunLo(b.lineAlloc)
           hi == FreeRunHi(b.lineAlloc)
       IN Refill(b) =
            [ok |-> TRUE,
             b |-> [b EXCEPT !.lineAlloc = @ \cup (lo..(hi - 1)),
                             !.cursor = Base(b) + lo * 128
                                          + (IF lo = 2 THEN 16 ELSE 0),
                             !.limit = Base(b) + hi * 128]]

\* C30: on every block of every reachable state, refill takes the lowest
\* maximal run [i, i+n) of free lines, sets exactly those bits of lineAlloc,
\* sets cursor = base + i*128 (plus 16 when i = 2) and limit = base +
\* (i+n)*128, and returns false and changes nothing when no line is free;
\* bits 0 and 1 of lineAlloc are set in every block; and a step that is not
\* Reset clears no lineAlloc bit: the lines a Make claims in a block are
\* the free lines from its lowest free line up to its new limit.
C30_RefillRun ==
  [][/\ \A i \in 1..nblocks' :
          /\ RefillAsStated(blk'[i])
          /\ {0, 1} \subseteq blk'[i].lineAlloc
     /\ \A i \in 1..nblocks :
          /\ RefillAsStated(blk[i])
          /\ {0, 1} \subseteq blk[i].lineAlloc
          /\ last'.op # "Reset" => blk[i].lineAlloc \subseteq blk'[i].lineAlloc
          /\ (last'.op = "Make" /\ blk'[i].lineAlloc # blk[i].lineAlloc) =>
               blk'[i].lineAlloc = blk[i].lineAlloc \cup
                 (FreeRunLo(blk[i].lineAlloc)
                    ..((blk'[i].limit - Base(blk'[i])) \div 128 - 1))]_vars

\* C30 happens: a Make has refilled a block whose lowest free run is
\* followed by escaped lines and by another free run, claiming the first
\* run only.
C30_Witness ==
  /\ last.op = "Make" /\ last.status = "returned"
  /\ \E i \in 1..nblocks :
       /\ blk[i].LineEscape \cap (3..63) # {}
       /\ blk[i].lineAlloc # blk[i].LineEscape \cup {0, 1}
       /\ (0..63) \ blk[i].lineAlloc # {}
       /\ blk[i].limit = Base(blk[i]) + SetMin(blk[i].LineEscape \ {0, 1}) * 128

\* C31: when a Make is diverted to the overflow block (the object it
\* returns lies in the overflow block and the main block stays the main
\* block), the main block's cursor, limit and lineAlloc are what they were
\* before the call.
C31_DiversionKeepsMain ==
  [][(/\ last'.op = "Make" /\ last'.status = "returned"
      /\ main # 0 /\ main' = main
      /\ last'.b = overflow' /\ last'.b # main')
       => /\ blk'[main].cursor = blk[main].cursor
          /\ blk'[main].limit = blk[main].limit
          /\ blk'[main].lineAlloc = blk[main].lineAlloc]_vars

\* The number of times block i is on the free stack e.
TimesOn(e, i) == Cardinality({k \in DOMAIN e : e[k] = i})

\* C32: Allocator.Reset ends with an empty full list; every block that was
\* on the full list has lineAlloc = LineEscape | 0b11 and cursor = limit = 0
\* and is on the free stack once more than before, every other block as
\* often as before; the main and the overflow block are unchanged.
C32_ResetFrame ==
  [][last'.op = "Reset" =>
       /\ full' = 0
       /\ main' = main /\ overflow' = overflow
       /\ \A i \in 1..MaxBlocks :
            IF i \in FullList(Alloc, full)
            THEN /\ blk'[i].lineAlloc = blk[i].LineEscape \cup {0, 1}
                 /\ blk'[i].cursor = 0 /\ blk'[i].limit = 0
                 /\ TimesOn(existing', i) = TimesOn(existing, i) + 1
            ELSE TimesOn(existing', i) = TimesOn(existing, i)
       /\ \A i \in {main, overflow} \ {0} : blk'[i] = blk[i]]_vars

\* C32 happens: a Reset has emptied a full list of two blocks while the
\* main block holds an object.
C32_Witness ==
  /\ last.op = "Reset"
  /\ full = 0 /\ Len(existing) = 2 /\ main # 0
  /\ \E o \in objs : o.b = main

\* C33: in every reachable allocator state, BlockOf(ptr) returns a block or
\* nil without faulting, for the pointers the caller holds, for a pointer
\* into no block and for nil; also when no overflow block exists and when
\* Make has not been called yet.
C33_BlockOfNoFault ==
  \A ptr \in {Payload(o) : o \in objs} \cup {HeapAddr, 0} :
    BlockOf(Alloc, ptr) >= 0

\* The k bytes of the word at the lowest addresses are zero.
LowBytesZero(word, k) ==
  k = 0 \/ word = ZeroWord \/ ("low" \in DOMAIN word /\ word.low >= k)

\* C34: when Make(size, typ) has returned x, the word at x - 8 holds typ
\* and size/8 as the word count, and every byte of [x, x + size) is zero:
\* the size \div 8 whole words and the size % 8 bytes after them.
C34_FreshObjectZero ==
  (last.op = "Make" /\ last.status = "returned")
    => /\ Load(blk[last.b], last.hw).typ = MakeFakeType(last.size, ptrPercent)
       /\ Load(blk[last.b], last.hw).words = last.size \div 8
       /\ \A w \in (last.hw + 1)..(last.hw + last.size \div 8) :
            Load(blk[last.b], w) = ZeroWord
       /\ LowBytesZero(Load(blk[last.b], last.hw + 1 + last.size \div 8),
                       last.size % 8)

\* C34 happens: Make has returned an object in a block reused after Reset,
\* and the payload covers a word that held the header of an object of the
\* time before the Reset.
C34_Witness ==
  /\ last.op = "Make" /\ last.status = "returned"
  /\ last.size = 240 /\ last.hw = 64
  /\ nblocks = 2 /\ main = 1 /\ full = 2
  /\ 78 \in blk[1].ObjBits
  /\ 78 \notin DOMAIN blk[1].mem

\* C35: a sweep with STEPS = 1 yields exactly one scenario, and in it every
\* listed parameter has the value LO of its range.
C35_OneStepLo ==
  [][cost.prog.steps = 1 =>
       /\ cost.i = 0 /\ cost'.i = 1
       /\ \A k \in 1..Len(cost.prog.vars) :
            cost'.scenario[param2Extractor[cost.prog.vars[k].param]]
              = cost.prog.vars[k].lo]_vars

\* C36: the object a Make returns overlaps no object the caller holds:
\* its words, header and padded payload, are disjoint from those of every
\* object returned since the Reset before last of its block, and of every
\* object that was in the main or the overflow block at a Reset.
C36_NoOverlap ==
  [][(last'.op = "Make" /\ last'.status = "returned") =>
       \A o \in objs :
         o.b # last'.b
         \/ ObjWords(o) \cap ObjWords([b |-> last'.b, hw |-> last'.hw,
                                       size |-> last'.size]) = {}]_vars

\* C36 happens: Make has returned an object in a block reused after a
\* Reset, while the caller holds an object that was in the main block at
\* that Reset.
C36_Witness ==
  /\ last.op = "Make" /\ last.status = "returned"
  /\ main = 1 /\ full = 2 /\ last.b = 1
  /\ \E o \in objs : o.b = 2

\* The three bitmaps of block b.
Bitmaps(b) == <<b.EscBits, b.ObjBits, b.LineEscape>>

\* C37: for every object the caller holds and any two addresses p and q
\* inside its payload, MarkEscaped(p) and MarkEscaped(q) applied to the
\* block as it is give the same EscBits, ObjBits and LineEscape.
C37_InteriorPointerSame ==
  \A o \in objs : \A p, q \in Offsets(o.size) :
    Bitmaps(MarkEscaped(blk[o.b], Payload(o) + p).b)
      = Bitmaps(MarkEscaped(blk[o.b], Payload(o) + q).b)

\* C38: after MarkEscaped(x), x the payload pointer Make returned for an
\* object of a size that is not a multiple of 8, the EscBits bit of every
\* word of the object, header and padded payload, is set.
C38_PaddedObjectEscaped ==
  (last.op = "MarkEscaped" /\ last.off = 0 /\ last.size % 8 # 0)
    => ObjWords([b |-> last.b, hw |-> last.hw, size |-> last.size])
         \subseteq blk[last.b].EscBits

====
